---- MODULE Spec2Model ----
(***************************************************************************)
(* Model of the scheduling core (CapacityCalculator and Scheduler) of      *)
(* src/scheduling/__init__.py.                                             *)
(*                                                                         *)
(* Dates are day numbers; day 0 is a Monday, so date.weekday() is d % 7.   *)
(* Hours are counted in tenths of an hour (8.0 h is 80, 0.1 h is 1), which *)
(* keeps the arithmetic of the code exact on the inputs enumerated here.   *)
(***************************************************************************)
EXTENDS Integers, Sequences, FiniteSets, TLC

VARIABLES
    capacity_calculator,     \* Scheduler.capacity_calculator (construction time)
    schedule_result,         \* Scheduler.schedule_result (last result, or NoResult)
    pc,                      \* position of the schedule() call
    jobs,                    \* argument jobs
    blocked_job_numbers,     \* argument blocked_job_numbers
    start_date,              \* argument start_date
    schedule_horizon_days,   \* argument schedule_horizon_days
    result,                  \* local result (ScheduleResult)
    capacity_map,            \* local capacity_map
    work_center_schedules,   \* local ledger (work center, date) -> committed items
    sorted_jobs,             \* local sorted_jobs
    job_index,               \* position of "for job in sorted_jobs" (1-based)
    op_index,                \* position of "for op in job.operations" (1-based)
    current_date,            \* local current_date of the job being walked
    calls,                   \* number of schedule() calls started on this Scheduler
    first_call,              \* history: arguments and result of the first call
    capacity_query,          \* the last get_capacity_for_work_center() call and its value
    analysis                 \* the last analytics call on the Scheduler and its value

vars == <<capacity_calculator, schedule_result, pc, jobs, blocked_job_numbers,
          start_date, schedule_horizon_days, result, capacity_map,
          work_center_schedules, sorted_jobs, job_index, op_index, current_date,
          calls, first_call, capacity_query, analysis>>

-----------------------------------------------------------------------------
(* Program constants *)

\* Scheduler.__init__: default_daily_capacity = 8.0
DefaultDailyCapacity == 80
\* Scheduler.__init__: work_day_hours = 8.0
WorkDayHours == 80
\* schedule(): hours_needed = 0.1 when production_hours <= 0
MinHoursNeeded == 1
\* Optional[date] = None (Job.release_date, the result of a failed search)
NoDate == -1
\* Job.manual_priority default
DefaultPriority == 100
\* get_bottleneck_work_centers(): sorted_wc[:5]
BottleneckCount == 5

\* the support set without PANEL
SUPPORT_OPERATIONS_StockOnly == {"STOCK"}

SUPPORT_OPERATIONS == {"STOCK", "PANEL"}

InactiveStatuses == {"COMPLETED", "CANCELLED"}

-----------------------------------------------------------------------------
(* Bounds of the model *)

\* largest schedule_horizon_days passed to schedule()
MaxHorizon == 3
\* largest number of schedule() calls on one Scheduler (SpecRerun)
MaxCalls == 3

-----------------------------------------------------------------------------
(* datetime and list helpers *)

\* date.weekday(): Monday is 0, Sunday is 6
Weekday(d) == d % 7

Max(a, b) == IF a >= b THEN a ELSE b

RECURSIVE SumSeq(_)
SumSeq(s) == IF s = <<>> THEN 0 ELSE Head(s) + SumSeq(Tail(s))

RECURSIVE FlatSeq(_)
FlatSeq(ss) == IF ss = <<>> THEN <<>> ELSE Head(ss) \o FlatSeq(Tail(ss))

Range(s) == {s[i] : i \in DOMAIN s}

-----------------------------------------------------------------------------
(* models: Operation, Job *)

Op(n, num, wc, qty, unit) ==
    [job_number |-> n, operation_number |-> num, work_center_code |-> wc,
     quantity |-> qty, unit_production_time_hours |-> unit]

\* Operation.production_hours
production_hours(op) == op.unit_production_time_hours * op.quantity

\* is_blocked and blocked_reason take the defaults of the dataclass
Job(n, due, st, rel, prio, ops) ==
    [job_number |-> n, due_date |-> due, status |-> st, release_date |-> rel,
     manual_priority |-> prio, operations |-> ops,
     is_blocked |-> FALSE, blocked_reason |-> ""]

-----------------------------------------------------------------------------
(* CapacityCalculator *)

\* _build_absence_lookup: absence_lookup[employee_id][date] is the last absence
\* of the list for that employee and date; 0 stands for "no entry".
RECURSIVE LastAbsenceIndex(_, _, _, _)
LastAbsenceIndex(absences, emp_id, d, i) ==
    IF i = 0 THEN 0
    ELSE IF absences[i].employee_id = emp_id /\ absences[i].date = d THEN i
         ELSE LastAbsenceIndex(absences, emp_id, d, i - 1)

absence_lookup(calc, emp_id, d) ==
    LastAbsenceIndex(calc.absences, emp_id, d, Len(calc.absences))

\* the contribution of an employee when an absence with hours_lost = 0 is read as
\* "no hours lost"
EmployeeHours_ZeroLostIgnored(calc, emp, work_center_code, target_date) ==
    IF work_center_code \notin emp.work_centers /\ emp.work_centers # {}
    THEN 0
    ELSE LET a == absence_lookup(calc, emp.id, target_date) IN
         IF a # 0
         THEN Max(0, emp.default_daily_hours - calc.absences[a].hours_lost)
         ELSE emp.default_daily_hours

\* the contribution of one employee to get_capacity_for_work_center
EmployeeHours(calc, emp, work_center_code, target_date) ==
    IF work_center_code \notin emp.work_centers /\ emp.work_centers # {}
    THEN 0
    ELSE LET a == absence_lookup(calc, emp.id, target_date) IN
         IF a # 0
         THEN LET lost == calc.absences[a].hours_lost
                  hours_lost == IF lost > 0 THEN lost ELSE emp.default_daily_hours
              IN Max(0, emp.default_daily_hours - hours_lost)
         ELSE emp.default_daily_hours

get_capacity_for_work_center(calc, work_center_code, target_date, default_daily_hours) ==
    SumSeq([i \in DOMAIN calc.employees |->
               EmployeeHours(calc, calc.employees[i], work_center_code, target_date)])

get_capacity_map(calc, work_center_codes, start, num_days, default_daily_hours) ==
    [key \in work_center_codes \X {start + i : i \in 0 .. (num_days - 1)} |->
        get_capacity_for_work_center(calc, key[1], key[2], default_daily_hours)]

-----------------------------------------------------------------------------
(* Scheduler: the pieces of schedule() *)

NoCalculator == [present |-> FALSE, employees |-> <<>>, absences |-> <<>>]

Calculator(emps, abs) == [present |-> TRUE, employees |-> emps, absences |-> abs]

NoResult == [returned |-> FALSE]

\* an entry whose operation is rewritten to the hours of its slot
ScheduledOperation_Rewritten(op, job, d, start_hour, end_hour, late, late_hours) ==
    [operation |-> [op EXCEPT !.quantity = 1,
                              !.unit_production_time_hours = end_hour - start_hour],
     job |-> job, scheduled_date |-> d,
     scheduled_start_hour |-> start_hour, scheduled_end_hour |-> end_hour,
     is_late |-> late, lateness_hours |-> late_hours]

ScheduledOperation(op, job, d, start_hour, end_hour, late, late_hours) ==
    [operation |-> op, job |-> job, scheduled_date |-> d,
     scheduled_start_hour |-> start_hour, scheduled_end_hour |-> end_hour,
     is_late |-> late, lateness_hours |-> late_hours]

\* list(blocked_job_numbers): the numbers of the set, each once
RECURSIVE SetToList(_)
SetToList(S) ==
    IF S = {} THEN <<>>
    ELSE LET m == CHOOSE x \in S : \A y \in S : x <= y
         IN <<m>> \o SetToList(S \ {m})

ScheduleResult(blocked, sd) ==
    [scheduled_operations |-> <<>>, unscheduled_operations |-> <<>>,
     jobs_on_time |-> 0, jobs_late |-> 0,
     blocked_jobs |-> SetToList(blocked), schedule_date |-> sd, notes |-> <<>>]

\* mutant: only COMPLETED jobs are filtered out
IsActive_CompletedOnly(j) == j.status # "COMPLETED"

\* active_jobs: the jobs whose status is not COMPLETED or CANCELLED, in input order
IsActive(j) == j.status \notin InactiveStatuses

active_jobs(js) == SelectSeq(js, IsActive)

\* work_centers: the codes used by the operations of the active jobs
work_centers(js) ==
    UNION {{j.operations[k].work_center_code : k \in DOMAIN j.operations} :
              j \in Range(active_jobs(js))}

\* capacity_map: from the calculator when there is one, else the flat default
build_capacity_map(calc, js, sd, horizon) ==
    IF calc.present
    THEN get_capacity_map(calc, work_centers(js), sd, horizon, DefaultDailyCapacity)
    ELSE [key \in work_centers(js) \X {sd + i : i \in 0 .. (horizon - 1)} |->
             DefaultDailyCapacity]

\* the blocked pass: every operation of every blocked active job, on start_date
BlockedEntries(job, blocked, sd) ==
    IF job.job_number \in blocked
    THEN [k \in DOMAIN job.operations |->
             ScheduledOperation(job.operations[k], job, sd, 0, 0, FALSE, 0)]
    ELSE <<>>

schedule_blocked(js, blocked, sd) ==
    FlatSeq([i \in DOMAIN active_jobs(js) |->
                BlockedEntries(active_jobs(js)[i], blocked, sd)])

\* mutant: the pass appends each blocked job's number to result.blocked_jobs again
blocked_pass_reappending(res, js, blocked, sd) ==
    [res EXCEPT !.scheduled_operations = @ \o schedule_blocked(js, blocked, sd),
                !.blocked_jobs = @ \o
                    FlatSeq([i \in DOMAIN active_jobs(js) |->
                                IF active_jobs(js)[i].job_number \in blocked
                                THEN <<active_jobs(js)[i].job_number>> ELSE <<>>])]

\* the blocked pass on the result: entries are appended, result.blocked_jobs is
\* left as initialised
blocked_pass(res, js, blocked, sd) ==
    [res EXCEPT !.scheduled_operations = @ \o schedule_blocked(js, blocked, sd)]

\* mutant: the manual priority is compared before the due date
SortKey_PriorityFirst(j, sd) == <<j.manual_priority, j.due_date - sd, j.job_number>>

\* the sort key of sorted(): (days to due, manual_priority, job_number)
SortKey(j, sd) == <<j.due_date - sd, j.manual_priority, j.job_number>>

\* tuple comparison of Python: a < b, lexicographic
KeyLess(a, b) ==
    \/ a[1] < b[1]
    \/ a[1] = b[1] /\ a[2] < b[2]
    \/ a[1] = b[1] /\ a[2] = b[2] /\ a[3] < b[3]

\* sorted() is stable: a job goes behind every job whose key is not larger
RECURSIVE InsertByKey(_, _, _)
InsertByKey(s, x, sd) ==
    IF s = <<>> THEN <<x>>
    ELSE IF KeyLess(SortKey(x, sd), SortKey(Head(s), sd)) THEN <<x>> \o s
         ELSE <<Head(s)>> \o InsertByKey(Tail(s), x, sd)

\* the main pass taking the active jobs in input order
sort_jobs_unsorted(js, sd) == js

RECURSIVE sort_jobs(_, _)
sort_jobs(s, sd) ==
    IF s = <<>> THEN <<>>
    ELSE InsertByKey(sort_jobs(SubSeq(s, 1, Len(s) - 1), sd), s[Len(s)], sd)

\* mutant: only Sunday is skipped
IsWeekend_SundayOnly(d) == Weekday(d) >= 6

\* target_date.weekday() >= 5
IsWeekend(d) == Weekday(d) >= 5

\* capacity_map.get(key, self.default_daily_capacity)
CapacityGet(cm, key) == IF key \in DOMAIN cm THEN cm[key] ELSE DefaultDailyCapacity

\* sum(item[1] for item in work_center_schedules[key]), 0 when the key is absent
ScheduledHours(wcs, key) ==
    IF key \in DOMAIN wcs THEN SumSeq([i \in DOMAIN wcs[key] |-> wcs[key][i][2]]) ELSE 0

\* _find_available_capacity: the first date of the walk that fits, or NoDate
_find_available_capacity(work_center_code, earliest_date, hours_needed, cm, wcs, horizon_days, schedule_start) ==
    LET max_date == schedule_start + horizon_days
        walk[i \in 0 .. Max(horizon_days, 0)] ==
            IF i >= horizon_days THEN NoDate
            ELSE LET target_date == earliest_date + i
                     key == <<work_center_code, target_date>>
                     remaining == CapacityGet(cm, key) - ScheduledHours(wcs, key)
                 IN IF target_date > max_date THEN NoDate
                    ELSE IF IsWeekend(target_date) THEN walk[i + 1]
                    ELSE IF remaining >= hours_needed THEN target_date
                    ELSE walk[i + 1]
    IN walk[0]

\* hours_needed = op.production_hours, 0.1 when that is not positive
HoursNeeded(op) ==
    IF production_hours(op) <= 0 THEN MinHoursNeeded ELSE production_hours(op)

\* work_center_schedules[key].append(item), the key created when absent
LedgerAppend(wcs, key, item) ==
    [k \in DOMAIN wcs \cup {key} |->
        IF k = key
        THEN (IF key \in DOMAIN wcs THEN wcs[key] ELSE <<>>) \o <<item>>
        ELSE wcs[k]]

\* mutant: the release date is ignored
InitialDate_StartOnly(job, sd) == sd

\* current_date at the start of a job's walk
InitialDate(job, sd) ==
    IF job.release_date # NoDate /\ job.release_date > sd
    THEN job.release_date ELSE sd

\* mutant: current_date is not advanced by a placement
AdvanceDate_Kept(current, scheduled_date) == current

\* current_date = scheduled_date after a placement
AdvanceDate(current, scheduled_date) == scheduled_date

\* a placement on the due date itself counted as late
IsLate_OnDueDate(scheduled_date, due_date) == scheduled_date >= due_date

\* is_late = scheduled_date > job.due_date
IsLate(scheduled_date, due_date) == scheduled_date > due_date

\* lateness_hours = (scheduled_date - job.due_date).days * work_day_hours if late
LatenessHours(is_late, scheduled_date, due_date) ==
    IF is_late THEN (scheduled_date - due_date) * WorkDayHours ELSE 0

\* a failed search that also moves the job's walk to the next day
declare_unscheduled_next_day(w, op) ==
    [w EXCEPT !.result.unscheduled_operations = Append(@, op),
              !.current_date = @ + 1]

\* else: result.unscheduled_operations.append(op)
declare_unscheduled(w, op) ==
    [w EXCEPT !.result.unscheduled_operations = Append(@, op)]

\* one iteration of "for op in job.operations" on the walk state
\* w = [result, work_center_schedules, current_date]
schedule_operation(w, job, op, cm, horizon, sd) ==
    IF op.work_center_code \in SUPPORT_OPERATIONS
    THEN [w EXCEPT !.result.scheduled_operations =
             Append(@, ScheduledOperation(op, job, w.current_date, 0, 0, FALSE, 0))]
    ELSE LET hours_needed == HoursNeeded(op)
             scheduled_date ==
                 _find_available_capacity(op.work_center_code, w.current_date,
                     hours_needed, cm, w.work_center_schedules, horizon, sd)
         IN IF scheduled_date # NoDate
            THEN LET is_late == IsLate(scheduled_date, job.due_date)
                     lateness_hours == LatenessHours(is_late, scheduled_date, job.due_date)
                 IN [result |->
                        [w.result EXCEPT !.scheduled_operations =
                            Append(@, ScheduledOperation(op, job, scheduled_date,
                                         0, hours_needed, is_late, lateness_hours))],
                     work_center_schedules |->
                        LedgerAppend(w.work_center_schedules,
                            <<op.work_center_code, scheduled_date>>,
                            <<job.job_number, hours_needed, job.manual_priority>>),
                     current_date |-> AdvanceDate(w.current_date, scheduled_date)]
            ELSE declare_unscheduled(w, op)

\* max(so.scheduled_date for so in entries)
RECURSIVE MaxDate(_)
MaxDate(entries) ==
    IF Len(entries) = 1 THEN entries[1].scheduled_date
    ELSE Max(entries[1].scheduled_date, MaxDate(Tail(entries)))

\* the entries of result.scheduled_operations with the job's number
EntriesOf(res, n) ==
    SelectSeq(res.scheduled_operations, LAMBDA so : so.job.job_number = n)

\* mutant: a job that completes on its due date is counted late
complete_job_strict(res, job) ==
    IF job.operations # <<>> /\ EntriesOf(res, job.job_number) # <<>>
    THEN IF MaxDate(EntriesOf(res, job.job_number)) < job.due_date
         THEN [res EXCEPT !.jobs_on_time = @ + 1]
         ELSE [res EXCEPT !.jobs_late = @ + 1]
    ELSE res

\* the accounting after a job's operations
complete_job(res, job) ==
    IF job.operations # <<>> /\ EntriesOf(res, job.job_number) # <<>>
    THEN IF MaxDate(EntriesOf(res, job.job_number)) <= job.due_date
         THEN [res EXCEPT !.jobs_on_time = @ + 1]
         ELSE [res EXCEPT !.jobs_late = @ + 1]
    ELSE res

\* the notes added before schedule() returns
add_notes(res) ==
    LET n1 == IF res.unscheduled_operations # <<>>
              THEN <<<<"unscheduled", Len(res.unscheduled_operations)>>>> ELSE <<>>
        n2 == IF res.blocked_jobs # <<>>
              THEN <<<<"blocked", Len(res.blocked_jobs)>>>> ELSE <<>>
    IN [res EXCEPT !.notes = @ \o n1 \o n2]

\* mutant: the ledger of the previous call is kept
keep_work_center_schedules(previous) == previous

\* work_center_schedules = {} at the start of every call
new_work_center_schedules(previous) == <<>>

\* a main loop that skips no job
IsBlocked_Never(job, blocked) == FALSE

\* the test of the main loop when the job's own is_blocked field counts as well
IsBlocked_OrFlag(job, blocked) == job.job_number \in blocked \/ job.is_blocked

\* job.job_number in blocked_job_numbers
IsBlocked(job, blocked) == job.job_number \in blocked

\* "for op in job.operations" from the k-th operation on
RECURSIVE walk_operations(_, _, _, _, _, _)
walk_operations(w, job, k, cm, horizon, sd) ==
    IF k > Len(job.operations) THEN w
    ELSE walk_operations(schedule_operation(w, job, job.operations[k], cm, horizon, sd),
                         job, k + 1, cm, horizon, sd)

\* "for job in sorted_jobs" from the i-th job on
RECURSIVE main_pass(_, _, _, _, _, _, _, _)
main_pass(res, wcs, sorted, i, blocked, cm, horizon, sd) ==
    IF i > Len(sorted) THEN res
    ELSE IF IsBlocked(sorted[i], blocked)
         THEN main_pass(res, wcs, sorted, i + 1, blocked, cm, horizon, sd)
         ELSE LET w == walk_operations(
                           [result |-> res, work_center_schedules |-> wcs,
                            current_date |-> InitialDate(sorted[i], sd)],
                           sorted[i], 1, cm, horizon, sd)
              IN main_pass(complete_job(w.result, sorted[i]), w.work_center_schedules,
                           sorted, i + 1, blocked, cm, horizon, sd)

\* the value schedule() returns
schedule(calc, js, blocked, sd, horizon) ==
    add_notes(main_pass(blocked_pass(ScheduleResult(blocked, sd), js, blocked, sd),
                        new_work_center_schedules(<<>>),
                        sort_jobs(active_jobs(js), sd), 1, blocked,
                        build_capacity_map(calc, js, sd, horizon), horizon, sd))

-----------------------------------------------------------------------------
(* Scheduler: the analytics *)

\* a quotient of two hour counts, kept exact
Fraction(n, d) == [num |-> n, den |-> d]

\* so.scheduled_end_hour - so.scheduled_start_hour
SlotHours(so) == so.scheduled_end_hour - so.scheduled_start_hour

\* a record that sums the slots of the date on every work center
WorkCenterCapacity_AnyWorkCenter(calc, res, wc, target_date) ==
    LET scheduled_hours ==
            SumSeq([k \in DOMAIN res.scheduled_operations |->
                       IF res.scheduled_operations[k].scheduled_date = target_date
                       THEN SlotHours(res.scheduled_operations[k]) ELSE 0])
        available_hours ==
            IF calc.present
            THEN get_capacity_for_work_center(calc, wc, target_date, DefaultDailyCapacity)
            ELSE DefaultDailyCapacity
    IN [work_center_code |-> wc, date |-> target_date,
        available_hours |-> available_hours, scheduled_hours |-> scheduled_hours,
        utilization_percent |->
            IF available_hours > 0 THEN Fraction(scheduled_hours * 100, available_hours)
            ELSE Fraction(0, 1)]

\* one WorkCenterCapacity record of calculate_utilization
WorkCenterCapacity(calc, res, wc, target_date) ==
    LET scheduled_hours ==
            SumSeq([k \in DOMAIN res.scheduled_operations |->
                       IF /\ res.scheduled_operations[k].operation.work_center_code = wc
                          /\ res.scheduled_operations[k].scheduled_date = target_date
                       THEN SlotHours(res.scheduled_operations[k]) ELSE 0])
        available_hours ==
            IF calc.present
            THEN get_capacity_for_work_center(calc, wc, target_date, DefaultDailyCapacity)
            ELSE DefaultDailyCapacity
    IN [work_center_code |-> wc, date |-> target_date,
        available_hours |-> available_hours, scheduled_hours |-> scheduled_hours,
        utilization_percent |->
            IF available_hours > 0 THEN Fraction(scheduled_hours * 100, available_hours)
            ELSE Fraction(0, 1)]

calculate_utilization(calc, res, wcs, start, num_days) ==
    FlatSeq([w \in DOMAIN wcs |->
                [i \in 1 .. num_days |->
                    WorkCenterCapacity(calc, res, wcs[w], start + (i - 1))]])

\* the keys of wc_hours, in the order the loop inserts them
RECURSIVE FirstSeen(_, _)
FirstSeen(entries, seen) ==
    IF entries = <<>> THEN seen
    ELSE LET wc == Head(entries).operation.work_center_code
         IN FirstSeen(Tail(entries),
                      IF wc \in Range(seen) THEN seen ELSE Append(seen, wc))

\* wc_hours[wc]
HoursOfWorkCenter(entries, wc) ==
    SumSeq([k \in DOMAIN entries |->
               IF entries[k].operation.work_center_code = wc
               THEN SlotHours(entries[k]) ELSE 0])

\* the insertion of a sort without reverse=True
RECURSIVE InsertByHours_Ascending(_, _)
InsertByHours_Ascending(item, s) ==
    IF s = <<>> THEN <<item>>
    ELSE IF Head(s)[2] <= item[2]
         THEN <<Head(s)>> \o InsertByHours_Ascending(item, Tail(s))
         ELSE <<item>> \o s

\* sorted(..., key=hours, reverse=True): items of equal hours keep their order
RECURSIVE InsertByHours(_, _)
InsertByHours(item, s) ==
    IF s = <<>> THEN <<item>>
    ELSE IF Head(s)[2] >= item[2] THEN <<Head(s)>> \o InsertByHours(item, Tail(s))
         ELSE <<item>> \o s

RECURSIVE SortByHours(_, _)
SortByHours(items, done) ==
    IF items = <<>> THEN done
    ELSE SortByHours(Tail(items), InsertByHours(Head(items), done))

get_bottleneck_work_centers(res, utilization_threshold) ==
    LET keys == FirstSeen(res.scheduled_operations, <<>>)
        items == [k \in DOMAIN keys |->
                     <<keys[k], HoursOfWorkCenter(res.scheduled_operations, keys[k])>>]
        sorted_wc == SortByHours(items, <<>>)
    IN SubSeq(sorted_wc, 1, IF Len(sorted_wc) < BottleneckCount
                            THEN Len(sorted_wc) ELSE BottleneckCount)

\* the explanations are kept as records instead of formatted strings
explain_scheduling_decision(job, res) ==
    LET job_scheduled ==
            SelectSeq(res.scheduled_operations,
                      LAMBDA so : so.job.job_number = job.job_number)
    IN IF job_scheduled = <<>>
       THEN <<[kind |-> "could_not_be_scheduled", job_number |-> job.job_number]>>
            \o (IF job.job_number \in Range(res.blocked_jobs)
                THEN <<[kind |-> "blocked"]>> ELSE <<>>)
       ELSE LET completion_date == MaxDate(job_scheduled)
                last_op == job_scheduled[Len(job_scheduled)]
            IN (IF completion_date > job.due_date
                THEN <<[kind |-> "late", job_number |-> job.job_number,
                        days_late |-> completion_date - job.due_date,
                        due |-> job.due_date, completion |-> completion_date]>>
                ELSE <<[kind |-> "before_due", job_number |-> job.job_number,
                        days_before |-> job.due_date - completion_date]>>)
               \o (IF job.manual_priority < 100
                   THEN <<[kind |-> "priority_override",
                           manual_priority |-> job.manual_priority]>>
                   ELSE <<>>)
               \o (IF last_op.is_late
                   THEN <<[kind |-> "last_operation", operation |-> last_op.operation,
                           scheduled_date |-> last_op.scheduled_date]>>
                   ELSE <<>>)

-----------------------------------------------------------------------------
(* The inputs enumerated *)

Saw(n, num) == Op(n, num, "SAW", 2, 30)

RoutingEmpty(n) == <<>>
RoutingSaw(n) == <<Saw(n, 10)>>
RoutingSawStock(n) == <<Saw(n, 10), Op(n, 20, "STOCK", 1, 20)>>
RoutingPanelZero(n) == <<Op(n, 10, "PANEL", 1, 20), Op(n, 20, "SAW", 0, 30)>>
RoutingWeldSaw(n) == <<Op(n, 10, "WELD", 1, 100), Saw(n, 20)>>
RoutingSawSaw(n) == <<Saw(n, 10), Saw(n, 20)>>
RoutingSawWeldStock(n) ==
    <<Saw(n, 10), Op(n, 20, "WELD", 1, 100), Op(n, 30, "STOCK", 1, 20)>>

\* a routing over seven capacity-limited work centers and a support step
RoutingLong(n) ==
    <<Saw(n, 10), Op(n, 20, "DRILL", 1, 20), Op(n, 30, "MILL", 2, 10),
      Op(n, 40, "STOCK", 1, 20), Op(n, 50, "PAINT", 1, 50), Op(n, 60, "PACK", 1, 10),
      Op(n, 70, "LATHE", 1, 70), Op(n, 80, "GRIND", 3, 10)>>

Routings(n) ==
    {RoutingEmpty(n), RoutingSaw(n), RoutingSawStock(n), RoutingPanelZero(n),
     RoutingWeldSaw(n), RoutingSawSaw(n), RoutingSawWeldStock(n)}

DueDates == {1, 8}

JobsOne ==
    {Job(1, due, "OPEN", rel, DefaultPriority, r) :
        due \in DueDates, rel \in {NoDate, 1}, r \in Routings(1)}
    \cup {Job(1, due, "COMPLETED", NoDate, DefaultPriority, RoutingSawStock(1)) :
            due \in DueDates}

\* a job whose is_blocked field is set (a material shortage was recorded on it)
Flagged(job) == [job EXCEPT !.is_blocked = TRUE, !.blocked_reason = "shortage"]

JobsTwo ==
    {Flagged(Job(2, due, "RELEASED", NoDate, prio, r)) :
        due \in DueDates, prio \in {50, DefaultPriority},
        r \in {RoutingSaw(2), RoutingSawStock(2), RoutingSawSaw(2)}}
    \cup {Job(2, 1, "CANCELLED", NoDate, DefaultPriority, RoutingSaw(2))}

JobLists ==
    {<<>>} \cup {<<a>> : a \in JobsOne} \cup {<<b>> : b \in JobsTwo}
    \cup {<<a, b>> : a \in JobsOne, b \in JobsTwo}
    \cup {<<b, a>> : a \in JobsOne, b \in JobsTwo}

BlockedSets == SUBSET {1, 2}

\* a Monday, a Friday and a Saturday
StartDates == {0, 4, 5}

Horizons == {0, MaxHorizon}

Employees ==
    <<[id |-> "e1", default_daily_hours |-> 80, work_centers |-> {}],
      [id |-> "e2", default_daily_hours |-> 40, work_centers |-> {"SAW"}]>>

Absences ==
    <<[employee_id |-> "e1", date |-> 1, hours_lost |-> 0],
      [employee_id |-> "e2", date |-> 2, hours_lost |-> 30]>>

Calculators == {NoCalculator, Calculator(<<>>, <<>>), Calculator(Employees, Absences)}

NoCall == [made |-> FALSE, others |-> 0]

\* no get_capacity_for_work_center() call, no analytics call was made yet
NoQuery == [made |-> FALSE]

NoAnalysis == [made |-> FALSE]

-----------------------------------------------------------------------------
(* The state machine *)

Init ==
    /\ capacity_calculator \in Calculators
    /\ schedule_result = NoResult
    /\ pc = "idle"
    /\ jobs = <<>>
    /\ blocked_job_numbers = {}
    /\ start_date = 0
    /\ schedule_horizon_days = 0
    /\ result = NoResult
    /\ capacity_map = <<>>
    /\ work_center_schedules = <<>>
    /\ sorted_jobs = <<>>
    /\ job_index = 0
    /\ op_index = 0
    /\ current_date = NoDate
    /\ calls = 0
    /\ first_call = NoCall
    /\ capacity_query = NoQuery
    /\ analysis = NoAnalysis

\* schedule(), from its entry to the start of the main loop
Enter(js, blocked, sd, horizon) ==
    /\ jobs' = js
    /\ blocked_job_numbers' = blocked
    /\ start_date' = sd
    /\ schedule_horizon_days' = horizon
    /\ result' = blocked_pass(ScheduleResult(blocked, sd), js, blocked, sd)
    /\ capacity_map' = build_capacity_map(capacity_calculator, js, sd, horizon)
    /\ work_center_schedules' = new_work_center_schedules(work_center_schedules)
    /\ sorted_jobs' = sort_jobs(active_jobs(js), sd)
    /\ job_index' = 1
    /\ op_index' = 0
    /\ current_date' = NoDate
    /\ calls' = calls + 1
    /\ pc' = "jobs"
    /\ UNCHANGED <<capacity_calculator, schedule_result, first_call,
                   capacity_query, analysis>>

ScheduleBegin ==
    /\ pc = "idle"
    /\ \E js \in JobLists, blocked \in BlockedSets, sd \in StartDates, h \in Horizons :
          Enter(js, blocked, sd, h)

\* "for job in sorted_jobs": a blocked job is skipped
SkipBlockedJob ==
    /\ pc = "jobs"
    /\ job_index <= Len(sorted_jobs)
    /\ IsBlocked(sorted_jobs[job_index], blocked_job_numbers)
    /\ job_index' = job_index + 1
    /\ UNCHANGED <<capacity_calculator, schedule_result, pc, jobs, blocked_job_numbers,
                   start_date, schedule_horizon_days, result, capacity_map,
                   work_center_schedules, sorted_jobs, op_index, current_date,
                   calls, first_call,
                   capacity_query, analysis>>

\* "for job in sorted_jobs": the walk of a job starts
StartJob ==
    /\ pc = "jobs"
    /\ job_index <= Len(sorted_jobs)
    /\ ~IsBlocked(sorted_jobs[job_index], blocked_job_numbers)
    /\ current_date' = InitialDate(sorted_jobs[job_index], start_date)
    /\ op_index' = 1
    /\ pc' = "ops"
    /\ UNCHANGED <<capacity_calculator, schedule_result, jobs, blocked_job_numbers,
                   start_date, schedule_horizon_days, result, capacity_map,
                   work_center_schedules, sorted_jobs, job_index, calls, first_call,
                   capacity_query, analysis>>

\* one iteration of "for op in job.operations"
ScheduleOperation ==
    /\ pc = "ops"
    /\ op_index <= Len(sorted_jobs[job_index].operations)
    /\ LET job == sorted_jobs[job_index]
           w == schedule_operation(
                    [result |-> result, work_center_schedules |-> work_center_schedules,
                     current_date |-> current_date],
                    job, job.operations[op_index], capacity_map,
                    schedule_horizon_days, start_date)
       IN /\ result' = w.result
          /\ work_center_schedules' = w.work_center_schedules
          /\ current_date' = w.current_date
    /\ op_index' = op_index + 1
    /\ UNCHANGED <<capacity_calculator, schedule_result, pc, jobs, blocked_job_numbers,
                   start_date, schedule_horizon_days, capacity_map, sorted_jobs,
                   job_index, calls, first_call,
                   capacity_query, analysis>>

\* the accounting of a job after its last operation
CompleteJob ==
    /\ pc = "ops"
    /\ op_index > Len(sorted_jobs[job_index].operations)
    /\ result' = complete_job(result, sorted_jobs[job_index])
    /\ job_index' = job_index + 1
    /\ pc' = "jobs"
    /\ UNCHANGED <<capacity_calculator, schedule_result, jobs, blocked_job_numbers,
                   start_date, schedule_horizon_days, capacity_map,
                   work_center_schedules, sorted_jobs, op_index, current_date,
                   calls, first_call,
                   capacity_query, analysis>>

\* history of the calls: the first call's arguments and result, and the number of
\* later calls whose arguments differ from the first call's
CallRecord(js, blocked, sd, horizon, res) ==
    [made |-> TRUE, others |-> 0, jobs |-> js, blocked_job_numbers |-> blocked,
     start_date |-> sd, schedule_horizon_days |-> horizon, result |-> res]

SameArguments(call, js, blocked, sd, horizon) ==
    /\ call.made
    /\ call.jobs = js
    /\ call.blocked_job_numbers = blocked
    /\ call.start_date = sd
    /\ call.schedule_horizon_days = horizon

RecordCall(call, n, js, blocked, sd, horizon, res) ==
    IF n = 1 THEN CallRecord(js, blocked, sd, horizon, res)
    ELSE IF SameArguments(call, js, blocked, sd, horizon) THEN call
    ELSE [call EXCEPT !.others = @ + 1]

\* the notes, self.schedule_result = result, return result
ScheduleReturn ==
    /\ pc = "jobs"
    /\ job_index > Len(sorted_jobs)
    /\ result' = add_notes(result)
    /\ schedule_result' = result'
    /\ first_call' = RecordCall(first_call, calls, jobs, blocked_job_numbers,
                                start_date, schedule_horizon_days, result')
    /\ pc' = "done"
    /\ UNCHANGED <<capacity_calculator, jobs, blocked_job_numbers, start_date,
                   schedule_horizon_days, capacity_map, work_center_schedules,
                   sorted_jobs, job_index, op_index, current_date, calls,
                   capacity_query, analysis>>

Next ==
    \/ ScheduleBegin
    \/ SkipBlockedJob
    \/ StartJob
    \/ ScheduleOperation
    \/ CompleteJob
    \/ ScheduleReturn

Spec == Init /\ [][Next]_vars

-----------------------------------------------------------------------------
(* Several calls on one Scheduler *)

RerunJobLists ==
    {<<>>,
     <<Job(1, 1, "OPEN", NoDate, DefaultPriority, RoutingSaw(1))>>,
     <<Job(1, 8, "OPEN", 1, DefaultPriority, RoutingSawSaw(1))>>,
     <<Job(1, 1, "OPEN", NoDate, DefaultPriority, RoutingSawStock(1)),
       Job(2, 1, "RELEASED", NoDate, 50, RoutingSaw(2))>>,
     <<Job(2, 8, "RELEASED", NoDate, DefaultPriority, RoutingSawSaw(2)),
       Job(1, 8, "OPEN", NoDate, DefaultPriority, RoutingWeldSaw(1))>>}

RerunBegin ==
    /\ pc = "idle"
    /\ \E js \in RerunJobLists, blocked \in {{}, {2}}, sd \in {0, 5},
          h \in {MaxHorizon} :
          Enter(js, blocked, sd, h)

\* a further call of schedule() on the same Scheduler, after one has returned
ScheduleAgain ==
    /\ pc = "done"
    /\ calls < MaxCalls
    /\ \E js \in RerunJobLists, blocked \in {{}, {2}}, sd \in {0, 5},
          h \in {MaxHorizon} :
          Enter(js, blocked, sd, h)

NextRerun ==
    \/ RerunBegin
    \/ ScheduleAgain
    \/ SkipBlockedJob
    \/ StartJob
    \/ ScheduleOperation
    \/ CompleteJob
    \/ ScheduleReturn

SpecRerun == Init /\ [][NextRerun]_vars

-----------------------------------------------------------------------------
(* Calls of CapacityCalculator.get_capacity_for_work_center *)

\* the employees and absences of the rosters: an all-round employee, a half-time
\* sawyer, a welder; full days off (hours_lost 0), part days, and an absence
\* longer than the employee's day
RosterEmployees ==
    <<[id |-> "e1", default_daily_hours |-> 80, work_centers |-> {}],
      [id |-> "e2", default_daily_hours |-> 40, work_centers |-> {"SAW"}],
      [id |-> "e3", default_daily_hours |-> 60, work_centers |-> {"WELD", "SAW"}]>>

RosterAbsences ==
    <<[employee_id |-> "e1", date |-> 1, hours_lost |-> 0],
      [employee_id |-> "e2", date |-> 2, hours_lost |-> 30],
      [employee_id |-> "e2", date |-> 1, hours_lost |-> 100],
      [employee_id |-> "e3", date |-> 1, hours_lost |-> 15],
      [employee_id |-> "e1", date |-> 2, hours_lost |-> 80]>>

\* the subsequence of s at the positions of the set picked
RECURSIVE Pick(_, _, _)
Pick(s, picked, i) ==
    IF i > Len(s) THEN <<>>
    ELSE (IF i \in picked THEN <<s[i]>> ELSE <<>>) \o Pick(s, picked, i + 1)

Rosters ==
    {Calculator(Pick(RosterEmployees, es, 1), Pick(RosterAbsences, as, 1)) :
        es \in SUBSET DOMAIN RosterEmployees, as \in SUBSET DOMAIN RosterAbsences}

QueryWorkCenters == {"SAW", "WELD", "PAINT"}

QueryDates == 0 .. MaxHorizon

QueryDefaults == {0, DefaultDailyCapacity}

InitCapacity ==
    /\ capacity_calculator \in Rosters
    /\ schedule_result = NoResult
    /\ pc = "idle"
    /\ jobs = <<>>
    /\ blocked_job_numbers = {}
    /\ start_date = 0
    /\ schedule_horizon_days = 0
    /\ result = NoResult
    /\ capacity_map = <<>>
    /\ work_center_schedules = <<>>
    /\ sorted_jobs = <<>>
    /\ job_index = 0
    /\ op_index = 0
    /\ current_date = NoDate
    /\ calls = 0
    /\ first_call = NoCall
    /\ capacity_query = NoQuery
    /\ analysis = NoAnalysis

\* a call get_capacity_for_work_center(work_center_code, target_date, default_daily_hours)
GetCapacity ==
    /\ \E wc \in QueryWorkCenters, d \in QueryDates, default \in QueryDefaults :
          capacity_query' =
              [made |-> TRUE, work_center_code |-> wc, target_date |-> d,
               default_daily_hours |-> default,
               hours |-> get_capacity_for_work_center(capacity_calculator, wc, d, default)]
    /\ UNCHANGED <<capacity_calculator, schedule_result, pc, jobs, blocked_job_numbers,
                   start_date, schedule_horizon_days, result, capacity_map,
                   work_center_schedules, sorted_jobs, job_index, op_index,
                   current_date, calls, first_call, analysis>>

NextCapacity == GetCapacity

SpecCapacity == InitCapacity /\ [][NextCapacity]_vars

-----------------------------------------------------------------------------
(* schedule() followed by the analytics on its result *)

AnalyticsJobLists ==
    {<<>>,
     <<Job(1, 1, "OPEN", NoDate, DefaultPriority, RoutingSawWeldStock(1))>>,
     <<Job(1, 8, "OPEN", 1, DefaultPriority, RoutingPanelZero(1))>>,
     <<Flagged(Job(2, 1, "RELEASED", NoDate, 50, RoutingSawSaw(2)))>>,
     <<Job(1, 1, "OPEN", NoDate, DefaultPriority, RoutingSawWeldStock(1)),
       Flagged(Job(2, 1, "RELEASED", NoDate, 50, RoutingSawSaw(2)))>>,
     <<Flagged(Job(2, 8, "RELEASED", NoDate, 50, RoutingSawSaw(2))),
       Job(1, 8, "OPEN", NoDate, DefaultPriority, RoutingWeldSaw(1))>>,
     <<Job(1, 8, "OPEN", 1, DefaultPriority, RoutingPanelZero(1)),
       Job(2, 8, "RELEASED", NoDate, DefaultPriority, RoutingSawStock(2))>>,
     <<Job(1, 1, "COMPLETED", NoDate, DefaultPriority, RoutingSawStock(1)),
       Job(2, 1, "RELEASED", NoDate, DefaultPriority, RoutingSaw(2))>>,
     <<Job(1, 8, "OPEN", NoDate, DefaultPriority, RoutingLong(1))>>,
     <<Job(1, 8, "OPEN", NoDate, DefaultPriority, RoutingLong(1)),
       Job(2, 1, "RELEASED", NoDate, DefaultPriority, RoutingSawSaw(2))>>}

AnalyticsBegin ==
    /\ pc = "idle"
    /\ \E js \in AnalyticsJobLists, blocked \in {{}, {1}, {2}}, sd \in {0, 4},
          h \in Horizons :
          Enter(js, blocked, sd, h)

\* the work_centers, num_days and job arguments of the analytics calls
UtilizationWorkCenters == {<<"SAW", "WELD">>, <<"STOCK", "SAW">>}

UtilizationDays == {0, MaxHorizon + 1}

\* the start_date arguments of calculate_utilization: the start of the run and
\* the day after
UtilizationStarts == {start_date, start_date + 1}

ExplainedJobs ==
    Range(jobs) \cup {Job(3, 1, "OPEN", NoDate, DefaultPriority, RoutingSaw(3))}

AnalyticsFrame ==
    UNCHANGED <<capacity_calculator, schedule_result, pc, jobs, blocked_job_numbers,
                start_date, schedule_horizon_days, result, capacity_map,
                work_center_schedules, sorted_jobs, job_index, op_index,
                current_date, calls, first_call, capacity_query>>

\* calculate_utilization(schedule_result, work_centers, start_date, num_days)
CalculateUtilization ==
    /\ pc = "done"
    /\ \E wcs \in UtilizationWorkCenters, sd \in UtilizationStarts,
          n \in UtilizationDays :
          analysis' =
              [made |-> TRUE, operation |-> "calculate_utilization",
               work_centers |-> wcs, start_date |-> sd, num_days |-> n,
               value |-> calculate_utilization(capacity_calculator, schedule_result,
                                               wcs, sd, n)]
    /\ AnalyticsFrame

\* get_bottleneck_work_centers(schedule_result, utilization_threshold)
GetBottleneckWorkCenters ==
    /\ pc = "done"
    /\ \E threshold \in {0, 90} :
          analysis' =
              [made |-> TRUE, operation |-> "get_bottleneck_work_centers",
               utilization_threshold |-> threshold,
               value |-> get_bottleneck_work_centers(schedule_result, threshold)]
    /\ AnalyticsFrame

\* explain_scheduling_decision(job, schedule_result)
ExplainSchedulingDecision ==
    /\ pc = "done"
    /\ \E job \in ExplainedJobs :
          analysis' =
              [made |-> TRUE, operation |-> "explain_scheduling_decision",
               job |-> job, value |-> explain_scheduling_decision(job, schedule_result)]
    /\ AnalyticsFrame

NextAnalytics ==
    \/ AnalyticsBegin
    \/ SkipBlockedJob
    \/ StartJob
    \/ ScheduleOperation
    \/ CompleteJob
    \/ ScheduleReturn
    \/ CalculateUtilization
    \/ GetBottleneckWorkCenters
    \/ ExplainSchedulingDecision

SpecAnalytics == Init /\ [][NextAnalytics]_vars

-----------------------------------------------------------------------------
(* Vocabulary of the properties *)

Returned == pc = "done"

InCall == pc \in {"jobs", "ops", "done"}

Entries == result.scheduled_operations

EntryIndices == DOMAIN result.scheduled_operations

InputJobs == Range(jobs)

Blocked(n) == n \in blocked_job_numbers

Active(j) == j.status # "COMPLETED" /\ j.status # "CANCELLED"

SupportCode(wc) == wc = "STOCK" \/ wc = "PANEL"

Saturday(d) == d % 7 = 5

Sunday(d) == d % 7 = 6

\* the capacity the Scheduler's capacity source gives a bucket
SourceCapacity(wc, d) ==
    IF capacity_calculator.present
    THEN get_capacity_for_work_center(capacity_calculator, wc, d, DefaultDailyCapacity)
    ELSE DefaultDailyCapacity

\* sum of production_hours over the entries of the result on work center wc, date d
RECURSIVE HoursOn(_, _, _)
HoursOn(entries, wc, d) ==
    IF entries = <<>> THEN 0
    ELSE (IF Head(entries).operation.work_center_code = wc
             /\ Head(entries).scheduled_date = d
          THEN production_hours(Head(entries).operation) ELSE 0)
         + HoursOn(Tail(entries), wc, d)

-----------------------------------------------------------------------------
(* C1..C10 *)

\* C1 (as claimed): after schedule() returns, on every capacity-limited work
\* center and date the production hours of the entries scheduled there sum to
\* at most the capacity the capacity source gives that bucket, for every input,
\* blocked jobs included.
C1_CapacityInvariant ==
    Returned =>
        \A i \in EntryIndices :
            LET wc == Entries[i].operation.work_center_code
                d == Entries[i].scheduled_date
            IN ~SupportCode(wc) => HoursOn(Entries, wc, d) <= SourceCapacity(wc, d)

\* C2 (as claimed): after schedule() returns no entry on a capacity-limited work
\* center is dated on a Saturday or Sunday, whatever start_date and the blocked set.
C2_NoWeekend ==
    Returned =>
        \A i \in EntryIndices :
            ~SupportCode(Entries[i].operation.work_center_code) =>
                ~Saturday(Entries[i].scheduled_date) /\ ~Sunday(Entries[i].scheduled_date)

\* C2 (amended): an entry on a capacity-limited work center is dated on a Saturday
\* or Sunday only when it belongs to a blocked job and the date is start_date;
\* no entry placed by the main pass falls on a weekend.
C2_NoWeekendInMainPass ==
    Returned =>
        \A i \in EntryIndices :
            (/\ ~SupportCode(Entries[i].operation.work_center_code)
             /\ (Saturday(Entries[i].scheduled_date) \/ Sunday(Entries[i].scheduled_date)))
            => /\ Blocked(Entries[i].job.job_number)
               /\ Entries[i].scheduled_date = start_date

\* C2 witness: a run that started on a weekend day placed a capacity-limited
\* operation of a job that is not blocked.
C2_Witness ==
    /\ Returned
    /\ Saturday(start_date)
    /\ \E i \in EntryIndices :
          /\ ~SupportCode(Entries[i].operation.work_center_code)
          /\ ~Blocked(Entries[i].job.job_number)

\* the non-blocked active jobs of the input
MainJobs == {j \in InputJobs : Active(j) /\ ~Blocked(j.job_number)}

\* the order of the main pass as claimed: (due_date - start_date, manual_priority,
\* job_number), ascending
OrderedBefore(a, b) ==
    \/ a.due_date - start_date < b.due_date - start_date
    \/ /\ a.due_date - start_date = b.due_date - start_date
       /\ a.manual_priority < b.manual_priority
    \/ /\ a.due_date - start_date = b.due_date - start_date
       /\ a.manual_priority = b.manual_priority
       /\ a.job_number < b.job_number

EntriesOfJob(n) == {i \in EntryIndices : Entries[i].job.job_number = n}

UnscheduledOfJob(n) ==
    {i \in DOMAIN result.unscheduled_operations :
        result.unscheduled_operations[i].job_number = n}

\* the number of operations of job n that were placed or declared unscheduled
Handled(n) == Cardinality(EntriesOfJob(n)) + Cardinality(UnscheduledOfJob(n))

\* every item committed to the ledger is still there
LedgerKept ==
    \A key \in DOMAIN work_center_schedules :
        /\ key \in DOMAIN work_center_schedules'
        /\ Len(work_center_schedules'[key]) >= Len(work_center_schedules[key])
        /\ SubSeq(work_center_schedules'[key], 1, Len(work_center_schedules[key]))
              = work_center_schedules[key]

SameCall == InCall /\ InCall' /\ calls' = calls

\* C3: in the main pass the non-blocked active jobs are taken in ascending order
\* of (due_date - start_date, manual_priority, job_number): once an operation of
\* a job has been handled, every operation of every job before it in that order
\* has been placed or declared unscheduled; and within a run no committed hours
\* leave the ledger.
C3_PriorityOrder ==
    /\ [](InCall =>
            \A a \in MainJobs, b \in MainJobs :
                (OrderedBefore(a, b) /\ Handled(b.job_number) > 0)
                => Handled(a.job_number) = Len(a.operations))
    /\ [][SameCall => LedgerKept]_vars

\* C3 witness: the walk of the second job of the order is under way after the
\* first job committed hours.
C3_Witness ==
    /\ pc = "ops"
    /\ work_center_schedules # <<>>
    /\ \E a \in MainJobs, b \in MainJobs :
          /\ OrderedBefore(a, b)
          /\ a.manual_priority > b.manual_priority
          /\ Handled(a.job_number) = Len(a.operations)
          /\ Len(a.operations) > 0
          /\ Handled(b.job_number) > 0

\* C4: a call with the arguments of the first call on the same Scheduler returns
\* the first call's result, whatever calls ran in between, and every call starts
\* its main pass with an empty ledger.
C4_Deterministic ==
    /\ (Returned /\ SameArguments(first_call, jobs, blocked_job_numbers, start_date,
                                  schedule_horizon_days))
       => result = first_call.result
    /\ (pc = "jobs" /\ job_index = 1) => work_center_schedules = <<>>

\* C4 witness: the third call repeats the first call's arguments after a call
\* with other arguments, and the runs commit hours.
C4_Witness ==
    /\ Returned
    /\ calls >= 3
    /\ first_call.others >= 1
    /\ SameArguments(first_call, jobs, blocked_job_numbers, start_date,
                     schedule_horizon_days)
    /\ work_center_schedules # <<>>

\* operation k of job j is in the result, dated start_date and not late
BlockedOpAtStart(j, k) ==
    /\ \E i \in EntriesOfJob(j.job_number) : Entries[i].operation = j.operations[k]
    /\ \A i \in EntriesOfJob(j.job_number) :
          Entries[i].operation = j.operations[k]
          => Entries[i].scheduled_date = start_date /\ ~Entries[i].is_late

BlockedListedOnce ==
    \A n \in blocked_job_numbers :
        Cardinality({i \in DOMAIN result.blocked_jobs : result.blocked_jobs[i] = n}) = 1

\* C5 (as claimed): every operation of every input job whose number is in
\* blocked_job_numbers is in scheduled_operations dated start_date and not late,
\* and each blocked number is once in result.blocked_jobs.
C5_BlockedComplete ==
    Returned =>
        /\ \A j \in InputJobs :
              Blocked(j.job_number) =>
                  \A k \in DOMAIN j.operations : BlockedOpAtStart(j, k)
        /\ BlockedListedOnce

\* C5 (amended): the same for every input job in blocked_job_numbers whose status
\* is not COMPLETED or CANCELLED; each blocked number is once in result.blocked_jobs.
C5_BlockedActiveComplete ==
    Returned =>
        /\ \A j \in InputJobs :
              (Blocked(j.job_number) /\ Active(j)) =>
                  \A k \in DOMAIN j.operations : BlockedOpAtStart(j, k)
        /\ BlockedListedOnce

\* C5 witness: a returned run with two blocked numbers, one of an active job that
\* has operations and is overdue at start_date.
C5_Witness ==
    /\ Returned
    /\ Cardinality(blocked_job_numbers) = 2
    /\ \E j \in InputJobs :
          /\ Blocked(j.job_number) /\ Active(j)
          /\ Len(j.operations) = 2
          /\ j.due_date < start_date

\* the position of an entry's operation in its job's routing
RoutingPosition(e) == CHOOSE k \in DOMAIN e.job.operations : e.job.operations[k] = e.operation

\* C6: within one job, a scheduled step that comes later in the routing is never
\* dated before a scheduled earlier step.
C6_SequentialOrder ==
    Returned =>
        \A i \in EntryIndices, k \in EntryIndices :
            (/\ Entries[i].job.job_number = Entries[k].job.job_number
             /\ RoutingPosition(Entries[i]) < RoutingPosition(Entries[k]))
            => Entries[i].scheduled_date <= Entries[k].scheduled_date

\* C6 witness: a non-blocked job waited for capacity at its first step, its
\* second step went unscheduled and its third step, a support step, is scheduled.
C6_Witness ==
    /\ Returned
    /\ \E i \in EntryIndices, k \in EntryIndices :
          /\ Entries[i].job.job_number = Entries[k].job.job_number
          /\ ~Blocked(Entries[i].job.job_number)
          /\ RoutingPosition(Entries[i]) = 1
          /\ RoutingPosition(Entries[k]) = 3
          /\ SupportCode(Entries[k].operation.work_center_code)
          /\ UnscheduledOfJob(Entries[i].job.job_number) # {}
          /\ Entries[i].scheduled_date > start_date
          /\ Entries[i].job.release_date = NoDate
          /\ ~Saturday(start_date)

\* the dates a run of the model can touch
AllDates == 0 .. (5 + MaxHorizon + 7)

\* the capacity source reports 0 hours for the work center on every date
ZeroCapacity(wc) ==
    /\ capacity_calculator.present
    /\ \A d \in AllDates :
          get_capacity_for_work_center(capacity_calculator, wc, d, DefaultDailyCapacity) = 0

\* C7 (as claimed): when the capacity source reports 0 hours on every date for a
\* capacity-limited work center, every operation of a non-blocked active job on it
\* is in unscheduled_operations and none is in scheduled_operations.
C7_ZeroCapacityUnscheduled ==
    Returned =>
        \A j \in MainJobs : \A k \in DOMAIN j.operations :
            (/\ ~SupportCode(j.operations[k].work_center_code)
             /\ ZeroCapacity(j.operations[k].work_center_code))
            => /\ \E u \in UnscheduledOfJob(j.job_number) :
                     result.unscheduled_operations[u] = j.operations[k]
               /\ \A i \in EntriesOfJob(j.job_number) :
                     Entries[i].operation # j.operations[k]

\* the date the claim gives the start of a job's walk
ClaimedWalkStart(j) ==
    IF j.release_date # NoDate /\ j.release_date > start_date
    THEN j.release_date ELSE start_date

\* C8: the walk of a non-blocked active job starts at release_date when that is
\* later than start_date and at start_date otherwise, and no operation of a job
\* released after start_date is scheduled before its release_date.
C8_ReleaseDate ==
    /\ (pc = "ops" /\ op_index = 1)
       => current_date = ClaimedWalkStart(sorted_jobs[job_index])
    /\ InCall =>
          \A i \in EntryIndices :
              (/\ ~Blocked(Entries[i].job.job_number)
               /\ Entries[i].job.release_date # NoDate
               /\ Entries[i].job.release_date > start_date)
              => Entries[i].scheduled_date >= Entries[i].job.release_date

\* C8 witness: a job released after start_date has a capacity-limited operation
\* placed on its release date.
C8_Witness ==
    /\ Returned
    /\ \E i \in EntryIndices :
          /\ ~Blocked(Entries[i].job.job_number)
          /\ Entries[i].job.release_date > start_date
          /\ ~SupportCode(Entries[i].operation.work_center_code)
          /\ Entries[i].scheduled_date = Entries[i].job.release_date

InactiveNumbers == {j.job_number : j \in {x \in InputJobs : ~Active(x)}}

CountersChange ==
    \/ result'.jobs_on_time # result.jobs_on_time
    \/ result'.jobs_late # result.jobs_late

\* C9: a COMPLETED or CANCELLED job, blocked or not, has no entry in
\* scheduled_operations or unscheduled_operations and no item in the ledger, and
\* the counters change only in the accounting of a job that is neither.
C9_InactiveExcluded ==
    /\ [](InCall =>
            /\ \A i \in EntryIndices : Entries[i].job.job_number \notin InactiveNumbers
            /\ \A i \in DOMAIN result.unscheduled_operations :
                  result.unscheduled_operations[i].job_number \notin InactiveNumbers
            /\ \A key \in DOMAIN work_center_schedules :
                  \A i \in DOMAIN work_center_schedules[key] :
                      work_center_schedules[key][i][1] \notin InactiveNumbers)
    /\ [][(SameCall /\ CountersChange)
           => (pc = "ops" /\ sorted_jobs[job_index].job_number \notin InactiveNumbers)]_vars

\* C9 witness: a returned run whose input holds a CANCELLED job, a blocked
\* COMPLETED job with operations, and nothing else.
C9_Witness ==
    /\ Returned
    /\ \E j \in InputJobs :
          j.status = "COMPLETED" /\ Blocked(j.job_number) /\ j.operations # <<>>
    /\ \E j \in InputJobs :
          j.status = "CANCELLED" /\ ~Blocked(j.job_number) /\ j.operations # <<>>

OnTimeJobs ==
    {j \in MainJobs :
        /\ EntriesOfJob(j.job_number) # {}
        /\ \A i \in EntriesOfJob(j.job_number) : Entries[i].scheduled_date <= j.due_date}

LateJobs ==
    {j \in MainJobs :
        \E i \in EntriesOfJob(j.job_number) : Entries[i].scheduled_date > j.due_date}

\* C10: after schedule() returns, jobs_on_time is the number of non-blocked
\* active jobs with a scheduled operation whose latest scheduled date is not after
\* the due date, and jobs_late the number of those whose latest date is after it;
\* blocked jobs, jobs without operations and jobs with nothing scheduled count in
\* neither.
C10_Counters ==
    Returned =>
        /\ result.jobs_on_time = Cardinality(OnTimeJobs)
        /\ result.jobs_late = Cardinality(LateJobs)

\* C10 witness: one job is counted on time with its last operation on the due
\* date, the other is counted late.
C10_Witness ==
    /\ Returned
    /\ result.jobs_on_time = 1
    /\ result.jobs_late = 1
    /\ \E j \in OnTimeJobs :
          \E i \in EntriesOfJob(j.job_number) : Entries[i].scheduled_date = j.due_date

-----------------------------------------------------------------------------
(* C11..C20 *)

\* a step of the main loop that handles one operation, and that operation
OpStep == pc = "ops" /\ pc' = "ops" /\ op_index' = op_index + 1

CurrentJob == sorted_jobs[job_index]

CurrentOp == sorted_jobs[job_index].operations[op_index]

\* the step appends an entry to scheduled_operations / to unscheduled_operations
Places ==
    Len(result'.scheduled_operations) = Len(result.scheduled_operations) + 1

PlacedEntry == result'.scheduled_operations[Len(result'.scheduled_operations)]

DeclaresUnscheduled ==
    result'.unscheduled_operations = Append(result.unscheduled_operations, CurrentOp)

\* the number of steps the call still has to take: one per operation, two per
\* job (its start and its accounting), one for the return
RECURSIVE StepsOfJobsFrom(_)
StepsOfJobsFrom(i) ==
    IF i > Len(sorted_jobs) THEN 0
    ELSE Len(sorted_jobs[i].operations) + 2 + StepsOfJobsFrom(i + 1)

RemainingSteps ==
    IF pc = "done" THEN 0
    ELSE 1 + StepsOfJobsFrom(job_index) - (IF pc = "ops" THEN op_index ELSE 0)

\* C11, first part: a call of schedule() that has started can always take its
\* next step until it has returned, and every step brings the return nearer.
C11_Terminates ==
    /\ []((InCall /\ ~Returned) => (ENABLED Next /\ RemainingSteps > 0))
    /\ [][SameCall => RemainingSteps' < RemainingSteps]_vars

\* C11 (as claimed): schedule() terminates; the search for one operation examines
\* at most horizon_days dates from current_date and none after start_date +
\* horizon_days; and an operation on a capacity-limited work center goes to
\* unscheduled_operations when the capacity source reports 0 hours everywhere
\* or horizon_days is 0.
C11_TerminatesWithinHorizon ==
    /\ C11_Terminates
    /\ [][(OpStep /\ Places /\ ~SupportCode(CurrentOp.work_center_code))
           => /\ PlacedEntry.scheduled_date >= current_date
              /\ PlacedEntry.scheduled_date < current_date + schedule_horizon_days
              /\ PlacedEntry.scheduled_date <= start_date + schedule_horizon_days]_vars
    /\ [][(/\ OpStep
           /\ ~SupportCode(CurrentOp.work_center_code)
           /\ (ZeroCapacity(CurrentOp.work_center_code) \/ schedule_horizon_days = 0))
           => DeclaresUnscheduled]_vars

\* the employees the claim counts for a work center
Eligible(calc, wc) ==
    {i \in DOMAIN calc.employees :
        calc.employees[i].work_centers = {} \/ wc \in calc.employees[i].work_centers}

AbsencesOf(calc, emp, d) ==
    {a \in Range(calc.absences) : a.employee_id = emp.id /\ a.date = d}

\* what the claim has an employee contribute on date d
ClaimedHours(calc, emp, d) ==
    IF AbsencesOf(calc, emp, d) = {} THEN emp.default_daily_hours
    ELSE LET a == CHOOSE x \in AbsencesOf(calc, emp, d) : TRUE
         IN IF a.hours_lost > 0
            THEN (IF emp.default_daily_hours > a.hours_lost
                  THEN emp.default_daily_hours - a.hours_lost ELSE 0)
            ELSE 0

RECURSIVE ClaimedSum(_, _, _)
ClaimedSum(calc, indices, d) ==
    IF indices = {} THEN 0
    ELSE LET i == CHOOSE x \in indices : TRUE
         IN ClaimedHours(calc, calc.employees[i], d) + ClaimedSum(calc, indices \ {i}, d)

\* C12: get_capacity_for_work_center(w, d, default) returns a value >= 0 that is
\* the sum, over the employees whose work_centers is empty or contains w, of the
\* employee's default_daily_hours without an absence on d, of max(0,
\* default_daily_hours - hours_lost) with an absence of hours_lost > 0, and of 0
\* with an absence of hours_lost = 0; the default argument plays no part.
C12_CapacityOfWorkCenter ==
    capacity_query.made =>
        /\ capacity_query.hours >= 0
        /\ capacity_query.hours =
              ClaimedSum(capacity_calculator,
                         Eligible(capacity_calculator, capacity_query.work_center_code),
                         capacity_query.target_date)

\* C12 witness: a call with default 0 on a date where one eligible employee is
\* off for the whole day (hours_lost 0), one loses more hours than a day has,
\* one loses part of the day, and the value is what that one keeps.
C12_Witness ==
    /\ capacity_query.made
    /\ capacity_query.default_daily_hours = 0
    /\ capacity_query.work_center_code = "SAW"
    /\ capacity_query.hours = 45
    /\ Len(capacity_calculator.employees) = 3
    /\ \E a \in AbsencesOf(capacity_calculator, capacity_calculator.employees[1],
                           capacity_query.target_date) : a.hours_lost = 0
    /\ \E a \in AbsencesOf(capacity_calculator, capacity_calculator.employees[2],
                           capacity_query.target_date) : a.hours_lost > 40
    /\ \E a \in AbsencesOf(capacity_calculator, capacity_calculator.employees[3],
                           capacity_query.target_date) : a.hours_lost = 15

\* the jobs with every is_blocked / blocked_reason field cleared, and with every
\* one set
ClearFlags(js) ==
    [i \in DOMAIN js |-> [js[i] EXCEPT !.is_blocked = FALSE, !.blocked_reason = ""]]

SetFlags(js) ==
    [i \in DOMAIN js |-> [js[i] EXCEPT !.is_blocked = TRUE, !.blocked_reason = "hold"]]

\* a result up to the is_blocked / blocked_reason fields of the jobs its entries
\* refer to
ButFlags(res) ==
    [res EXCEPT !.scheduled_operations =
        [i \in DOMAIN @ |->
            [@[i] EXCEPT !.job.is_blocked = FALSE, !.job.blocked_reason = ""]]]

\* C13: a job is treated as blocked exactly when its job_number is in
\* blocked_job_numbers: the run returns, up to those two fields, the result of
\* the runs on the same jobs with is_blocked / blocked_reason cleared and with
\* them set on every job, and the main loop skips a job if and only if its
\* number is in the set.
C13_BlockedBySetOnly ==
    /\ [](Returned =>
            \A variant \in {ClearFlags(jobs), SetFlags(jobs)} :
                ButFlags(result) =
                    ButFlags(schedule(capacity_calculator, variant, blocked_job_numbers,
                                      start_date, schedule_horizon_days)))
    /\ [][(pc = "jobs" /\ SameCall /\ job_index <= Len(sorted_jobs))
           => ((pc' = "jobs") <=> Blocked(CurrentJob.job_number))]_vars

\* C13 witness: a job with is_blocked set is not in the set and the capacity
\* search placed an operation of it after start_date, in a run that has a
\* blocked job whose is_blocked is not set.
C13_Witness ==
    /\ Returned
    /\ \E j \in InputJobs : Active(j) /\ Blocked(j.job_number) /\ ~j.is_blocked
    /\ \E i \in EntryIndices :
          /\ Entries[i].job.is_blocked
          /\ ~Blocked(Entries[i].job.job_number)
          /\ ~SupportCode(Entries[i].operation.work_center_code)
          /\ Entries[i].scheduled_date > start_date

\* the operations of the input jobs
InputOperations == UNION {Range(j.operations) : j \in InputJobs}

\* an analytics call has returned
AnalysisStep == analysis' # analysis

\* C14: schedule() and the analytics leave the input jobs and their operations as
\* they were given: the jobs list is the same after every step, every Job and
\* Operation the result refers to is an input Job with all its fields and its
\* operations list in order, or an Operation of it; and an analytics call leaves
\* the jobs and the ScheduleResult it was given unchanged.
C14_InputsUnchanged ==
    /\ [][SameCall => jobs' = jobs]_vars
    /\ [](InCall =>
            /\ \A i \in EntryIndices :
                  /\ Entries[i].job \in InputJobs
                  /\ Entries[i].operation \in Range(Entries[i].job.operations)
            /\ \A i \in DOMAIN result.unscheduled_operations :
                  result.unscheduled_operations[i] \in InputOperations
            /\ Range(sorted_jobs) \subseteq InputJobs)
    /\ [][AnalysisStep =>
            /\ jobs' = jobs
            /\ schedule_result' = schedule_result
            /\ result' = result]_vars

\* C14 witness: explain_scheduling_decision has answered for a late job of a
\* result that holds a support step, entries of two jobs and an unscheduled
\* operation.
C14_Witness ==
    /\ Returned
    /\ analysis.made
    /\ analysis.operation = "explain_scheduling_decision"
    /\ \E i \in DOMAIN analysis.value : analysis.value[i].kind = "late"
    /\ result.unscheduled_operations # <<>>
    /\ \E i \in EntryIndices : SupportCode(Entries[i].operation.work_center_code)
    /\ \E i \in EntryIndices, k \in EntryIndices :
          Entries[i].job.job_number # Entries[k].job.job_number

\* the hours the claims have an operation need: production_hours, 0.1 h when
\* that is not positive
ClaimedHoursNeeded(op) ==
    IF op.unit_production_time_hours * op.quantity > 0
    THEN op.unit_production_time_hours * op.quantity ELSE 1

\* the hours a ledger holds for a bucket
CommittedIn(ledger, wc, d) ==
    IF <<wc, d>> \in DOMAIN ledger
    THEN SumSeq([i \in DOMAIN ledger[<<wc, d>>] |-> ledger[<<wc, d>>][i][2]])
    ELSE 0

\* the hours committed to a bucket in this run so far
CommittedHours(wc, d) == CommittedIn(work_center_schedules, wc, d)

\* the remaining capacity of a bucket: the capacity the capacity source gives it
\* (the flat default without a source) minus the hours committed to it
RemainingCapacity(wc, d) == SourceCapacity(wc, d) - CommittedHours(wc, d)

\* the two jobs of Scenario B: 6 h each on SAW, the first due earlier
ScenarioB ==
    /\ ~capacity_calculator.present
    /\ blocked_job_numbers = {}
    /\ start_date = 0
    /\ schedule_horizon_days = MaxHorizon
    /\ Len(jobs) = 2
    /\ jobs[1].job_number = 1 /\ jobs[1].due_date = 1 /\ jobs[1].release_date = NoDate
    /\ jobs[1].operations = RoutingSaw(1) /\ jobs[1].status = "OPEN"
    /\ jobs[2].due_date = 8 /\ jobs[2].operations = RoutingSaw(2)

\* C15 (as claimed): when the main pass schedules a capacity-limited operation on
\* date d, d is a weekday at or after the job's current_date whose remaining
\* capacity is at least hours_needed, and every weekday from current_date up to
\* d had less remaining capacity than hours_needed; in Scenario B the job due
\* earlier gets the Monday and the other the Tuesday.
C15_FirstFit ==
    /\ [][(OpStep /\ Places /\ ~SupportCode(CurrentOp.work_center_code))
           => LET d == PlacedEntry.scheduled_date
                  wc == CurrentOp.work_center_code
              IN /\ d >= current_date
                 /\ ~Saturday(d) /\ ~Sunday(d)
                 /\ RemainingCapacity(wc, d) >= ClaimedHoursNeeded(CurrentOp)
                 /\ \A x \in current_date .. (d - 1) :
                       (~Saturday(x) /\ ~Sunday(x))
                       => RemainingCapacity(wc, x) < ClaimedHoursNeeded(CurrentOp)]_vars
    /\ []((Returned /\ ScenarioB)
           => /\ Len(Entries) = 2
              /\ Entries[1].job.job_number = 1 /\ Entries[1].scheduled_date = 0
              /\ Entries[2].job.job_number = 2 /\ Entries[2].scheduled_date = 1)

\* C16 (as claimed): every placement of the main pass on a capacity-limited work
\* center has start_date <= scheduled_date < start_date + schedule_horizon_days,
\* and with a capacity source the capacity the placement was admitted against
\* is the value the source gives the bucket, never the fallback constant.
C16_WithinHorizon ==
    InCall =>
        \A i \in EntryIndices :
            (/\ ~Blocked(Entries[i].job.job_number)
             /\ ~SupportCode(Entries[i].operation.work_center_code))
            => LET key == <<Entries[i].operation.work_center_code,
                            Entries[i].scheduled_date>>
               IN /\ start_date <= key[2]
                  /\ key[2] < start_date + schedule_horizon_days
                  /\ capacity_calculator.present
                     => /\ key \in DOMAIN capacity_map
                        /\ CapacityGet(capacity_map, key) = SourceCapacity(key[1], key[2])

\* C17: when the search finds no date for an operation of a non-blocked job, the
\* operation is appended to unscheduled_operations, no entry is added, nothing
\* is committed to the ledger and current_date stays; the walk goes on, so that
\* when the job is accounted for every operation of it was placed or declared
\* unscheduled.
C17_UnscheduledStep ==
    /\ [][(OpStep /\ ~Places)
           => /\ DeclaresUnscheduled
              /\ ~SupportCode(CurrentOp.work_center_code)
              /\ result'.scheduled_operations = result.scheduled_operations
              /\ work_center_schedules' = work_center_schedules
              /\ current_date' = current_date]_vars
    /\ [][(SameCall /\ pc = "ops" /\ pc' = "jobs")
           => Handled(CurrentJob.job_number) = Len(CurrentJob.operations)]_vars

\* C17 witness: the first operation of a job found no date and the next one, on
\* a capacity-limited work center, was placed on the date the walk started at.
C17_Witness ==
    /\ Returned
    /\ \E j \in MainJobs :
          /\ Len(j.operations) >= 2
          /\ \E u \in UnscheduledOfJob(j.job_number) :
                result.unscheduled_operations[u] = j.operations[1]
          /\ \E i \in EntriesOfJob(j.job_number) :
                /\ Entries[i].operation = j.operations[2]
                /\ ~SupportCode(Entries[i].operation.work_center_code)
                /\ Entries[i].scheduled_date = ClaimedWalkStart(j)
                /\ CommittedHours(Entries[i].operation.work_center_code,
                                  Entries[i].scheduled_date) > 0

\* the jobs without their operations on support work centers
WithoutSupport(js) ==
    [i \in DOMAIN js |->
        [js[i] EXCEPT !.operations =
            SelectSeq(@, LAMBDA op : ~SupportCode(op.work_center_code))]]

\* what a result says about the operations on capacity-limited work centers:
\* their entries in order (job number, operation, date, hours, lateness) and
\* the unscheduled operations
CapacityLimitedPart(res) ==
    [placed |->
        LET kept == SelectSeq(res.scheduled_operations,
                              LAMBDA so : ~SupportCode(so.operation.work_center_code))
        IN [i \in DOMAIN kept |->
               <<kept[i].job.job_number, kept[i].operation, kept[i].scheduled_date,
                 kept[i].scheduled_start_hour, kept[i].scheduled_end_hour,
                 kept[i].is_late, kept[i].lateness_hours>>],
     unscheduled |->
        SelectSeq(res.unscheduled_operations,
                  LAMBDA op : ~SupportCode(op.work_center_code))]

\* C18: an operation on a support work center (STOCK, PANEL) of a non-blocked job
\* is put in scheduled_operations at the job's current_date with is_late false,
\* never in unscheduled_operations, commits no hours and leaves current_date as
\* it is; and the operations on capacity-limited work centers are placed as in
\* the run on the same jobs without the support operations.
C18_SupportStep ==
    /\ [][(OpStep /\ SupportCode(CurrentOp.work_center_code))
           => /\ Places
              /\ PlacedEntry.operation = CurrentOp
              /\ PlacedEntry.job = CurrentJob
              /\ PlacedEntry.scheduled_date = current_date
              /\ ~PlacedEntry.is_late
              /\ result'.unscheduled_operations = result.unscheduled_operations
              /\ work_center_schedules' = work_center_schedules
              /\ current_date' = current_date]_vars
    /\ [](Returned =>
            CapacityLimitedPart(result) =
                CapacityLimitedPart(schedule(capacity_calculator, WithoutSupport(jobs),
                                             blocked_job_numbers, start_date,
                                             schedule_horizon_days)))

\* C18 witness: a support step of a non-blocked job was entered after the job's
\* due date, on the date an earlier step of the job had moved current_date to,
\* and is not late; the other job placed hours as well.
C18_Witness ==
    /\ Returned
    /\ \E i \in EntryIndices, k \in EntryIndices, o \in EntryIndices :
          /\ SupportCode(Entries[i].operation.work_center_code)
          /\ ~Blocked(Entries[i].job.job_number)
          /\ Entries[i].scheduled_date > Entries[i].job.due_date
          /\ Entries[i].scheduled_date > start_date
          /\ ~Entries[i].is_late
          /\ k < i
          /\ Entries[k].job = Entries[i].job
          /\ Entries[k].is_late
          /\ Entries[k].scheduled_date = Entries[i].scheduled_date
          /\ Entries[o].job.job_number # Entries[i].job.job_number
          /\ ~SupportCode(Entries[o].operation.work_center_code)
          /\ ~Blocked(Entries[o].job.job_number)

\* the entries the main pass placed on capacity-limited work centers
PlacedByMainPass ==
    {i \in EntryIndices :
        /\ ~Blocked(Entries[i].job.job_number)
        /\ ~SupportCode(Entries[i].operation.work_center_code)}

\* C19: for every capacity-limited operation the main pass placed, is_late holds
\* exactly when scheduled_date is after the job's due_date, lateness_hours is
\* the number of days between them times work_day_hours (8 h) when late and 0
\* otherwise, so that lateness_hours > 0 implies is_late.
C19_Lateness ==
    InCall =>
        \A i \in PlacedByMainPass :
            LET days == Entries[i].scheduled_date - Entries[i].job.due_date
            IN /\ Entries[i].is_late <=> days > 0
               /\ days > 0 => Entries[i].lateness_hours = days * 80
               /\ days <= 0 => Entries[i].lateness_hours = 0
               /\ Entries[i].lateness_hours > 0 => Entries[i].is_late

\* C19 witness: one operation was placed on its job's due date and is not late,
\* another two days after its job's due date with 16 h of lateness.
C19_Witness ==
    /\ Returned
    /\ \E i \in PlacedByMainPass, k \in PlacedByMainPass :
          /\ Entries[i].scheduled_date = Entries[i].job.due_date
          /\ ~Entries[i].is_late
          /\ Entries[k].scheduled_date = Entries[k].job.due_date + 2
          /\ Entries[k].lateness_hours = 160

\* C20 (as claimed): a capacity-limited operation whose production_hours is not
\* positive is treated as needing 0.1 h: it is never placed on a bucket whose
\* remaining capacity is below 0.1 h, and when it is placed its slot is 0.1 h
\* long and 0.1 h is committed to the bucket.
C20_MinimumHours ==
    [][(/\ OpStep
        /\ Places
        /\ ~SupportCode(CurrentOp.work_center_code)
        /\ CurrentOp.unit_production_time_hours * CurrentOp.quantity <= 0)
       => LET wc == CurrentOp.work_center_code
              d == PlacedEntry.scheduled_date
          IN /\ RemainingCapacity(wc, d) >= 1
             /\ PlacedEntry.scheduled_end_hour - PlacedEntry.scheduled_start_hour = 1
             /\ CommittedIn(work_center_schedules', wc, d) = CommittedHours(wc, d) + 1]_vars

-----------------------------------------------------------------------------
(* C21..C30 *)

\* the entries of the result the Scheduler keeps, and their slot lengths summed
\* over a set of positions
GivenEntries == schedule_result.scheduled_operations

RECURSIVE SlotSum(_)
SlotSum(indices) ==
    IF indices = {} THEN 0
    ELSE LET i == CHOOSE x \in indices : TRUE
         IN (GivenEntries[i].scheduled_end_hour - GivenEntries[i].scheduled_start_hour)
            + SlotSum(indices \ {i})

EntriesOn(wc, d) ==
    {i \in DOMAIN GivenEntries :
        GivenEntries[i].operation.work_center_code = wc /\ GivenEntries[i].scheduled_date = d}

UtilizationCall == analysis.made /\ analysis.operation = "calculate_utilization"

\* the dates of the window of the call
WindowDates == {analysis.start_date + i : i \in 0 .. (analysis.num_days - 1)}

BottleneckCall == analysis.made /\ analysis.operation = "get_bottleneck_work_centers"

\* the work centers the result has entries on, and the hours of a work center
\* over the whole result
GivenWorkCenters ==
    {GivenEntries[i].operation.work_center_code : i \in DOMAIN GivenEntries}

TotalHours(wc) ==
    SlotSum({i \in DOMAIN GivenEntries : GivenEntries[i].operation.work_center_code = wc})

\* C22: get_bottleneck_work_centers(result, threshold) returns at most 5 pairs
\* (work center, total hours), each work center of the result at most once with
\* its hours summed over the whole result, in non-increasing order of hours; no
\* work center left out has more hours than one returned, none is left out
\* while fewer than 5 are returned, and every threshold gives the same list.
C22_Bottlenecks ==
    BottleneckCall =>
        LET v == analysis.value
            returned == {v[k][1] : k \in DOMAIN v}
        IN /\ Len(v) <= 5
           /\ \A k \in DOMAIN v :
                 /\ v[k][1] \in GivenWorkCenters
                 /\ v[k][2] = TotalHours(v[k][1])
           /\ \A k \in DOMAIN v, l \in DOMAIN v :
                 /\ k < l => v[k][2] >= v[l][2]
                 /\ k # l => v[k][1] # v[l][1]
           /\ \A wc \in GivenWorkCenters \ returned :
                 /\ Len(v) = 5
                 /\ \A k \in DOMAIN v : TotalHours(wc) <= v[k][2]
           /\ \A threshold \in {0, 50, 90, 100} :
                 v = get_bottleneck_work_centers(schedule_result, threshold)

\* C22 witness: the result has entries on more than 5 work centers; 5 are
\* returned, two of them with different hours, and a work center left out has
\* the hours of the last one returned.
C22_Witness ==
    /\ BottleneckCall
    /\ Len(analysis.value) = 5
    /\ analysis.value[1][2] > analysis.value[2][2]
    /\ \E wc \in GivenWorkCenters :
          /\ \A k \in DOMAIN analysis.value : analysis.value[k][1] # wc
          /\ TotalHours(wc) = analysis.value[5][2]
          /\ TotalHours(wc) > 0

ExplainCall == analysis.made /\ analysis.operation = "explain_scheduling_decision"

\* the explanation holds a line of the kind
Says(kind) == \E k \in DOMAIN analysis.value : analysis.value[k].kind = kind

\* C23 (as claimed): for a result of schedule(), explain_scheduling_decision(job,
\* result) gives the reason "job has open shortages and is blocked" if and only
\* if the job's number is in result.blocked_jobs.
C23_BlockedReason ==
    (ExplainCall /\ Returned) =>
        (Says("blocked") <=> analysis.job.job_number \in Range(schedule_result.blocked_jobs))

\* the active jobs of the input, and the number of their operations
ActiveJobs == {j \in InputJobs : Active(j)}

RECURSIVE OperationCount(_)
OperationCount(js) ==
    IF js = {} THEN 0
    ELSE LET j == CHOOSE x \in js : TRUE
         IN Len(j.operations) + OperationCount(js \ {j})

\* the places of an operation of a job in the two lists of the result
ScheduledPlaces(j, op) ==
    {i \in EntryIndices :
        Entries[i].job.job_number = j.job_number /\ Entries[i].operation = op}

UnscheduledPlaces(op) ==
    {i \in DOMAIN result.unscheduled_operations : result.unscheduled_operations[i] = op}

\* C24: after schedule() returns, every operation of every active job is in
\* exactly one of scheduled_operations and unscheduled_operations, exactly once,
\* the two lists together are as long as the active jobs have operations, and
\* no operation of a blocked job is in unscheduled_operations.
C24_Partition ==
    Returned =>
        /\ \A j \in ActiveJobs : \A k \in DOMAIN j.operations :
              Cardinality(ScheduledPlaces(j, j.operations[k]))
                  + Cardinality(UnscheduledPlaces(j.operations[k])) = 1
        /\ Len(Entries) + Len(result.unscheduled_operations) = OperationCount(ActiveJobs)
        /\ \A i \in DOMAIN result.unscheduled_operations :
              ~Blocked(result.unscheduled_operations[i].job_number)

\* C24 witness: a run with a blocked job that has operations and a job that is
\* not blocked, of which one operation was scheduled and one was not.
C24_Witness ==
    /\ Returned
    /\ \E b \in ActiveJobs, j \in ActiveJobs :
          /\ Blocked(b.job_number)
          /\ Len(b.operations) >= 2
          /\ ~Blocked(j.job_number)
          /\ EntriesOfJob(j.job_number) # {}
          /\ UnscheduledOfJob(j.job_number) # {}

\* the input without the job at position x
RECURSIVE Without(_, _)
Without(js, x) ==
    IF js = <<>> THEN <<>>
    ELSE IF x = 1 THEN Tail(js)
         ELSE <<Head(js)>> \o Without(Tail(js), x - 1)

\* what a result says about job n: its entries in order (operation, date, hours,
\* lateness) and its unscheduled operations
PartOfJob(res, n) ==
    [placed |->
        LET kept == SelectSeq(res.scheduled_operations,
                              LAMBDA so : so.job.job_number = n)
        IN [i \in DOMAIN kept |->
               <<kept[i].operation, kept[i].scheduled_date,
                 kept[i].scheduled_start_hour, kept[i].scheduled_end_hour,
                 kept[i].is_late, kept[i].lateness_hours>>],
     unscheduled |->
        SelectSeq(res.unscheduled_operations, LAMBDA op : op.job_number = n)]

\* the job at position x is blocked, or comes after job a in the order of the
\* main pass
RemovableFor(a, x) ==
    /\ jobs[x].job_number # a.job_number
    /\ \/ Blocked(jobs[x].job_number)
       \/ (Active(jobs[x]) /\ OrderedBefore(a, jobs[x]))

\* C25: the dates of a non-blocked active job depend only on the jobs before it
\* in the order (days to due, manual_priority, job_number): the run on the input
\* without a job that comes later in that order, or without a blocked job,
\* gives every operation of the job the same date and the same
\* scheduled / unscheduled status.
C25_EarlierJobsOnly ==
    Returned =>
        \A a \in MainJobs : \A x \in DOMAIN jobs :
            RemovableFor(a, x)
            => PartOfJob(result, a.job_number) =
                   PartOfJob(schedule(capacity_calculator, Without(jobs, x),
                                      blocked_job_numbers, start_date,
                                      schedule_horizon_days),
                             a.job_number)

\* C25 witness: two jobs that are not blocked share a work center; the one that
\* comes later in the order stands first in the input and was pushed to a later
\* date by the hours of the other.
C25_Witness ==
    /\ Returned
    /\ Len(jobs) = 2
    /\ jobs[1] \in MainJobs /\ jobs[2] \in MainJobs
    /\ OrderedBefore(jobs[2], jobs[1])
    /\ \E i \in EntriesOfJob(jobs[1].job_number), k \in EntriesOfJob(jobs[2].job_number) :
          /\ Entries[i].operation.work_center_code = Entries[k].operation.work_center_code
          /\ ~SupportCode(Entries[i].operation.work_center_code)
          /\ Entries[k].scheduled_date = start_date
          /\ Entries[i].scheduled_date > start_date
          /\ PartOfJob(result, jobs[1].job_number) #
                PartOfJob(schedule(capacity_calculator, Without(jobs, 2),
                                   blocked_job_numbers, start_date,
                                   schedule_horizon_days),
                          jobs[1].job_number)

\* the step of the main pass that counts the walked job in jobs_on_time
CountsOnTime ==
    /\ SameCall
    /\ pc = "ops"
    /\ result'.jobs_on_time = result.jobs_on_time + 1

\* every operation of the job has an entry dated on or before the due date, and
\* none is in unscheduled_operations
FullyOnTime(res, j) ==
    /\ \A k \in DOMAIN j.operations :
          \E i \in DOMAIN res.scheduled_operations :
              /\ res.scheduled_operations[i].job.job_number = j.job_number
              /\ res.scheduled_operations[i].operation = j.operations[k]
    /\ \A i \in DOMAIN res.scheduled_operations :
          res.scheduled_operations[i].job.job_number = j.job_number
          => res.scheduled_operations[i].scheduled_date <= j.due_date
    /\ \A i \in DOMAIN res.unscheduled_operations :
          res.unscheduled_operations[i].job_number # j.job_number

\* C26: a job is counted in jobs_on_time only when all its operations are in
\* scheduled_operations, none is in unscheduled_operations, and every entry of it
\* is dated on or before its due date.
C26_OnTimeFullyScheduled ==
    [][CountsOnTime => FullyOnTime(result', sorted_jobs[job_index])]_vars

\* the step of the main pass that closes the walk of a job
ClosesJob ==
    /\ SameCall
    /\ pc = "ops"
    /\ pc' = "jobs"

\* an entry of job n is marked late
MarkedLate(res, n) ==
    \E i \in DOMAIN res.scheduled_operations :
        /\ res.scheduled_operations[i].job.job_number = n
        /\ res.scheduled_operations[i].is_late

\* C27: a non-blocked job is counted in jobs_late exactly when one of its entries
\* in scheduled_operations has is_late = TRUE, routings with support steps and
\* jobs released after their due date included.
C27_LateIffMarked ==
    [][ClosesJob
        => ((result'.jobs_late = result.jobs_late + 1)
               <=> MarkedLate(result', sorted_jobs[job_index].job_number))]_vars

\* every date the search of this run can examine
SearchWindow == start_date .. start_date + schedule_horizon_days

\* the hours the operation needs exceed the full daily capacity of its work
\* center on every weekday of the search window
NeverFitsADay(op) ==
    \A d \in SearchWindow :
        ~IsWeekend(d) => ClaimedHoursNeeded(op) > SourceCapacity(op.work_center_code, d)

\* C28: work is never split across days: a capacity-limited operation whose
\* hours_needed exceeds the full daily capacity of its work center on every
\* weekday of the search window is not scheduled and ends in
\* unscheduled_operations, even when all buckets are empty.
C28_NeverSplit ==
    [][(/\ OpStep
        /\ ~SupportCode(CurrentOp.work_center_code)
        /\ NeverFitsADay(CurrentOp))
       => DeclaresUnscheduled]_vars

\* C29: every record calculate_utilization returns for a result of schedule(),
\* computed by the Scheduler that produced it, has scheduled_hours no larger than
\* available_hours and utilization_percent no larger than 100, for any window
\* and any list of work centers.
C29_NotOverbooked ==
    UtilizationCall =>
        \A k \in DOMAIN analysis.value :
            /\ analysis.value[k].scheduled_hours <= analysis.value[k].available_hours
            /\ analysis.value[k].utilization_percent.num
                  <= 100 * analysis.value[k].utilization_percent.den

\* the input jobs whose explanation against the result holds a line of the kind
ExplainedAs(kind) ==
    {i \in DOMAIN jobs :
        LET lines == explain_scheduling_decision(jobs[i], schedule_result)
        IN \E k \in DOMAIN lines : lines[k].kind = kind}

\* C30: for a result of schedule(), explain_scheduling_decision agrees with the
\* counters: the number of input jobs explained as projected late is jobs_late,
\* and the number explained as completing before the due date is jobs_on_time.
C30_ExplainAgreesWithCounters ==
    (ExplainCall /\ Returned) =>
        /\ Cardinality(ExplainedAs("late")) = schedule_result.jobs_late
        /\ Cardinality(ExplainedAs("before_due")) = schedule_result.jobs_on_time

====
